---- MODULE Spec2Model ----
(***************************************************************************)
(* News store of stock-kline-cache: the ingestion run                      *)
(* (scripts/sync_news_finnhub.py) and the enrichment run                   *)
(* (scripts/analyze_news_gemini.py, scripts/analyze_news_openai.py) over   *)
(* the store file news/top.json.                                           *)
(*                                                                         *)
(* Encodings.  A Python string is a sequence of character codes: the digit *)
(* characters are 0..9 and '-' is Dash, which sorts before every digit as  *)
(* in ASCII; "" is << >>.  An optional value (None or x) is << >> or       *)
(* <<x>>.  A provider datetime is counted in half seconds so that int(dt)  *)
(* truncates.  Times are small naturals; MAX_AGE_SECONDS, MAX_ITEMS and    *)
(* the default of MAX_ARTICLES_PER_RUN are scaled down with them.          *)
(***************************************************************************)
EXTENDS Integers, Sequences, FiniteSets, TLC

\* ---------------------------------------------------------------- bounds
MaxId == 3
MaxNow == 2
MaxBatch == 2
MaxQuota == 2
MaxLoaded == 3

\* ------------------------------------------------------ program constants
MAX_ITEMS == 2
MAX_AGE_SECONDS == 1
ANALYSIS_VERSION == 2

VARIABLES
    file,         \* news/top.json: [exists, whole, data]
    tmp,          \* news/top.json.tmp, the file write_json_atomic writes first
    now,          \* the wall clock, int(time.time())
    quota,        \* MAX_ARTICLES_PER_RUN, read from the environment
    raw_items,    \* ingestion main(): raw_items, as fetched
    existing,     \* ingestion main(): existing
    new_items,    \* ingestion main(): transformed_new, as passed to merge_and_trim
    mnow,         \* merge_and_trim(): now
    items,        \* enrichment main(): items, as loaded
    to_analyze,   \* enrichment main(): to_analyze, as positions in items
    responses,    \* what the model answered for each selected record, in order
    err,          \* the exception that ended the last run, or "none"
    io,           \* what the run did at the store path, in order: "load", "save"
    pending,      \* the list a save in progress is writing
    pc,           \* where a save in progress stands, "run" when none is
    last          \* the run that ended last: "none", "ingest", "enrich"

vars == <<file, tmp, now, quota, raw_items, existing, new_items, mnow, items,
          to_analyze, responses, err, io, pending, pc, last>>
saveVars == <<tmp, pending, pc>>

\* ---------------------------------------------------------------- strings
Dash == 0 - 1
None == << >>
Some(x) == <<x>>
EmptyStr == << >>

RECURSIVE Str(_)
Str(n) == IF n < 10 THEN <<n>> ELSE Str(n \div 10) \o <<n % 10>>

\* ------------------------------------------------------------------ clock
Expired(ts, t) == t - ts > MAX_AGE_SECONDS

\* ------------------------------------------------- transform_raw_items
NewEntry(item, ts, ordinal) ==
    [id |-> IF item.id.kind = "none" THEN Str(ts) \o <<Dash>> \o Str(ordinal)
            ELSE IF item.id.kind = "int" THEN Str(item.id.n)
            ELSE item.id.s,
     headline |-> item.headline,
     url |-> item.url,
     publishedAt |-> ts,
     analysis |-> None]

\* a raw item's headline and url stand for item.get(...) or "": a missing
\* key, null and "" read alike
Invalid_UrlOnly(item) == item.url = ""

Invalid(item) == item.headline = "" \/ item.url = ""

RECURSIVE transform_loop(_, _, _, _)
transform_loop(raw, i, t, result) ==
    IF i > Len(raw) THEN result
    ELSE LET item == raw[i] IN
         IF item.datetime = None
         THEN transform_loop(raw, i + 1, t, result)
         ELSE LET ts == item.datetime[1] \div 2 IN
              IF Expired(ts, t) THEN transform_loop(raw, i + 1, t, result)
              ELSE IF Invalid(item)
              THEN transform_loop(raw, i + 1, t, result)
              ELSE transform_loop(raw, i + 1, t,
                                  Append(result, NewEntry(item, ts, Len(result))))

transform_raw_items(raw, t) == transform_loop(raw, 1, t, << >>)

\* ------------------------------------------------------- merge_and_trim
\* merged: a dict in insertion order, as a sequence of [key, val]
HasKey(d, k) == \E j \in 1..Len(d) : d[j].key = k
DictGet(d, k) == d[CHOOSE j \in 1..Len(d) : d[j].key = k].val
DictPut(d, k, v) ==
    IF HasKey(d, k)
    THEN [j \in 1..Len(d) |-> IF d[j].key = k THEN [key |-> k, val |-> v] ELSE d[j]]
    ELSE Append(d, [key |-> k, val |-> v])
DictValues(d) == [j \in 1..Len(d) |-> d[j].val]

\* publishedAt is an int in every record of the model, so the isinstance
\* test of lines 92 and 102 passes
Skipped_IdOnly(item, t) == item.id = EmptyStr

Skipped(item, t) == Expired(item.publishedAt, t) \/ item.id = EmptyStr

SeedExisting_Nothing(ex, i, t, merged) == merged

RECURSIVE SeedExisting(_, _, _, _)
SeedExisting(ex, i, t, merged) ==
    IF i > Len(ex) THEN merged
    ELSE IF Skipped(ex[i], t) THEN SeedExisting(ex, i + 1, t, merged)
    ELSE SeedExisting(ex, i + 1, t, DictPut(merged, ex[i].id, ex[i]))

KeepAnalysis_Dropped(existing_item, item) == item

KeepAnalysis(existing_item, item) ==
    IF existing_item.analysis # None /\ item.analysis = None
    THEN [item EXCEPT !.analysis = existing_item.analysis]
    ELSE item

Overwrite_FirstWins(merged, item) ==
    IF HasKey(merged, item.id) THEN merged ELSE DictPut(merged, item.id, item)

Overwrite(merged, item) ==
    IF HasKey(merged, item.id)
    THEN DictPut(merged, item.id, KeepAnalysis(DictGet(merged, item.id), item))
    ELSE DictPut(merged, item.id, item)

RECURSIVE MergeNew(_, _, _, _)
MergeNew(new, i, t, merged) ==
    IF i > Len(new) THEN merged
    ELSE IF Skipped(new[i], t) THEN MergeNew(new, i + 1, t, merged)
    ELSE MergeNew(new, i + 1, t, Overwrite(merged, new[i]))

\* list.sort(key=publishedAt, reverse=True): stable, equal keys keep their order
InsertDesc(sorted, x) ==
    LET later == {j \in 1..Len(sorted) : sorted[j].publishedAt < x.publishedAt}
        p == IF later = {} THEN Len(sorted) + 1
             ELSE CHOOSE j \in later : \A k \in later : j <= k
    IN SubSeq(sorted, 1, p - 1) \o <<x>> \o SubSeq(sorted, p, Len(sorted))

InsertAsc(sorted, x) ==
    LET later == {j \in 1..Len(sorted) : sorted[j].publishedAt > x.publishedAt}
        p == IF later = {} THEN Len(sorted) + 1
             ELSE CHOOSE j \in later : \A k \in later : j <= k
    IN SubSeq(sorted, 1, p - 1) \o <<x>> \o SubSeq(sorted, p, Len(sorted))

RECURSIVE SortLoopAsc(_, _, _)
SortLoopAsc(s, i, sorted) ==
    IF i > Len(s) THEN sorted ELSE SortLoopAsc(s, i + 1, InsertAsc(sorted, s[i]))

Reversed(s) == [j \in 1..Len(s) |-> s[Len(s) + 1 - j]]

\* sort() without reverse=True
SortNewestFirst_Ascending(s) == SortLoopAsc(s, 1, << >>)

\* sort() and then reverse(): equal keys come out in reverse order
SortNewestFirst_Reversing(s) == Reversed(SortLoopAsc(s, 1, << >>))

RECURSIVE SortLoop(_, _, _)
SortLoop(s, i, sorted) ==
    IF i > Len(s) THEN sorted ELSE SortLoop(s, i + 1, InsertDesc(sorted, s[i]))

SortNewestFirst(s) == SortLoop(s, 1, << >>)

Trim_Never(result) == result

Trim(result) ==
    IF Len(result) > MAX_ITEMS THEN SubSeq(result, 1, MAX_ITEMS) ELSE result

merge_and_trim(ex, new, t) ==
    Trim(SortNewestFirst(DictValues(MergeNew(new, 1, t, SeedExisting(ex, 1, t, << >>)))))

\* ------------------------------------------------------------- the store
\* a file holds the JSON text of the list data; when whole is false the text
\* stops short after the records of data and does not parse
\* junk is <<j>> when the list holds, after its first j records, an element
\* that is not an object (a string, a number); data holds the records only
Absent == [exists |-> FALSE, whole |-> TRUE, data |-> << >>, junk |-> None]
Written(data) == [exists |-> TRUE, whole |-> TRUE, data |-> data, junk |-> None]
Partial(data) == [exists |-> TRUE, whole |-> FALSE, data |-> data, junk |-> None]
WithJunk(data, j) == [exists |-> TRUE, whole |-> TRUE, data |-> data, junk |-> Some(j)]

\* item.get(...) on an element that is not a dict raises: the loops of
\* merge_and_trim and select_items_to_analyze go through the whole list
ItemError(f) == IF f.exists /\ f.whole /\ f.junk # None THEN "AttributeError" ELSE "none"

\* sync_news_finnhub: no file, and any exception of json.load, give []
load_existing(f) == IF ~f.exists THEN << >> ELSE IF ~f.whole THEN << >> ELSE f.data

\* analyze_news_*: open() and json.load() raise
LoadError(f) ==
    IF ~f.exists THEN "FileNotFoundError"
    ELSE IF ~f.whole THEN "JSONDecodeError"
    ELSE "none"

load_news_Reversed(f) == [j \in 1..Len(f.data) |-> f.data[Len(f.data) + 1 - j]]

load_news(f) == f.data

\* ------------------------------------------------- the enrichment run
\* every analysis of the model carries an integer version
Eligible_AnyVersion(item) == item.url # ""

Eligible(item) ==
    /\ item.url # ""
    /\ \/ item.analysis = None
       \/ item.analysis[1].version < ANALYSIS_VERSION

RECURSIVE select_loop(_, _, _)
select_loop(its, i, candidates) ==
    IF i > Len(its) THEN candidates
    ELSE IF Eligible(its[i]) THEN select_loop(its, i + 1, Append(candidates, i))
    ELSE select_loop(its, i + 1, candidates)

FirstN_Last(candidates, q) ==
    SubSeq(candidates, IF q < Len(candidates) THEN Len(candidates) - q + 1 ELSE 1,
           Len(candidates))

FirstN(candidates, q) ==
    SubSeq(candidates, 1, IF q < Len(candidates) THEN q ELSE Len(candidates))

\* the selected records, as their positions in its (the list holds references)
select_items_to_analyze(its, q) == FirstN(select_loop(its, 1, << >>), q)

\* ---- analyze_with_gemini / analyze_with_openai: the model's answer
\* A confidence is counted in tenths.  A JSON value of the answer is a record
\* [kind, s, v]: the key is missing, null, a string s, a number v, a string
\* that float() reads as the number v, or the number NaN.
CONF_MIN == 0
CONF_MAX == 10
CONF_DEFAULT == 5
SENTIMENTS == {"bullish", "bearish", "neutral"}

Missing == [kind |-> "missing", s |-> "", v |-> 0]
Null == [kind |-> "null", s |-> "", v |-> 0]
JStr(s) == [kind |-> "str", s |-> s, v |-> 0]
JNum(v) == [kind |-> "num", s |-> "", v |-> v]
JNumStr(v) == [kind |-> "numstr", s |-> "", v |-> v]
JNaN == [kind |-> "nan", s |-> "", v |-> 0]

\* str(x).lower() on the strings of the model
Lower(s) ==
    CASE s = "Bullish" -> "bullish"
      [] s = "BEARISH" -> "bearish"
      [] s = "None" -> "none"
      [] OTHER -> s

\* str(data.get("sentiment", "neutral"))
SentimentText(x) ==
    IF x.kind = "missing" THEN "neutral"
    ELSE IF x.kind = "null" THEN "None"
    ELSE x.s

NormSentiment(x) ==
    LET sentiment == Lower(SentimentText(x))
    IN IF sentiment \notin SENTIMENTS THEN "neutral" ELSE sentiment

Min(a, b) == IF b < a THEN b ELSE a
Max(a, b) == IF b > a THEN b ELSE a

Clamp_LowerOnly(c) == Max(CONF_MIN, c)

\* max(0.0, min(1.0, confidence)); every comparison with NaN is false, so
\* min(1.0, NaN) is 1.0
Clamp(c) == Max(CONF_MIN, Min(CONF_MAX, c))

\* float(data.get("confidence", 0.5)), 0.5 when float() raises
NormConfidence(x) ==
    IF x.kind = "nan" THEN Max(CONF_MIN, CONF_MAX)
    ELSE Clamp(IF x.kind \in {"num", "numstr"} THEN x.v ELSE CONF_DEFAULT)

\* an answer: raises is "api" when the call raised, "json" when json.loads
\* did, "none" when the answer parsed to an object
Raised(why) == [raises |-> why, sentiment |-> Missing, confidence |-> Missing]
Answer(s, c) == [raises |-> "none", sentiment |-> s, confidence |-> c]

analyze_with_gemini(resp) ==
    [sentiment |-> NormSentiment(resp.sentiment),
     confidence |-> NormConfidence(resp.confidence)]

build_analysis_object_OldVersion(model_output, t) ==
    [version |-> ANALYSIS_VERSION - 1, generatedAt |-> t,
     sentiment |-> model_output.sentiment,
     confidence |-> model_output.confidence]

build_analysis_object(model_output, t) ==
    [version |-> ANALYSIS_VERSION, generatedAt |-> t,
     sentiment |-> model_output.sentiment,
     confidence |-> model_output.confidence]

RECURSIVE analyze_until_raise(_, _, _, _, _)
analyze_until_raise(its, sel, k, resp, stamp) ==
    IF k > Len(sel) THEN its
    ELSE IF resp[k].raises # "none" THEN its
    ELSE analyze_until_raise(
             [its EXCEPT ![sel[k]].analysis =
                  Some([version |-> ANALYSIS_VERSION, generatedAt |-> stamp[k],
                        sentiment |-> "neutral", confidence |-> 5])],
             sel, k + 1, resp, stamp)

\* a failed call stored as a neutral analysis
analyze_loop_MarksFailed(its, sel, k, resp, stamp) ==
    [p \in 1..Len(its) |->
        IF \E j \in k..Len(sel) : sel[j] = p
        THEN [its[p] EXCEPT !.analysis =
                 Some([version |-> ANALYSIS_VERSION,
                       generatedAt |-> stamp[CHOOSE j \in k..Len(sel) : sel[j] = p],
                       sentiment |-> "neutral", confidence |-> CONF_DEFAULT])]
        ELSE its[p]]

analyze_loop_StopsOnFailure(its, sel, k, resp, stamp) ==
    analyze_until_raise(its, sel, k, resp, stamp)

\* the loop of main(): resp[k] is the model's answer for the k-th selected
\* record, stamp[k] is the clock when it came
RECURSIVE analyze_loop(_, _, _, _, _)
analyze_loop(its, sel, k, resp, stamp) ==
    IF k > Len(sel) THEN its
    ELSE IF resp[k].raises # "none" THEN analyze_loop(its, sel, k + 1, resp, stamp)
    ELSE analyze_loop(
             [its EXCEPT ![sel[k]].analysis =
                  Some(build_analysis_object(analyze_with_gemini(resp[k]), stamp[k]))],
             sel, k + 1, resp, stamp)

\* ------------------------------------------------------------ the inputs
\* a run is short against the unit of time: between two readings of the clock
\* in one run the clock stays or moves on by one
Ticks == {0, 1}
StartTime == MaxNow - 1

NativeId(n) == [kind |-> "int", n |-> n, s |-> EmptyStr]
NoId == [kind |-> "none", n |-> 0, s |-> EmptyStr]
EmptyId == [kind |-> "str", n |-> 0, s |-> EmptyStr]

\* what the provider sends at time t: an item published just now under each
\* id, one published MAX_AGE_SECONDS ago, one without an id, one without a
\* url and one whose id is the empty string
RawItems(t) ==
    [id : {NativeId(n) : n \in 1..MaxId},
     datetime : {Some(2 * t)}, headline : {"h1"}, url : {"u1"}]
    \cup {[id |-> NativeId(1), datetime |-> Some(2 * (t - MAX_AGE_SECONDS)), headline |-> "h1", url |-> "u1"],
          [id |-> NoId, datetime |-> Some(2 * t + 1), headline |-> "h2", url |-> "u2"],
          [id |-> NativeId(1), datetime |-> Some(2 * t), headline |-> "h1", url |-> ""],
          [id |-> EmptyId, datetime |-> Some(2 * t), headline |-> "h1", url |-> "u2"]}

Batches(t) == UNION {[1..n -> RawItems(t)] : n \in 0..MaxBatch}

\* raw items of every shape: with and without an id, a datetime, a headline
\* and a url, fresh and too old
AnyRawItems(t) ==
    [id : {NativeId(1), NoId},
     datetime : {None, Some(2 * t), Some(2 * (t - MAX_AGE_SECONDS) - 2)},
     headline : {"", "h1"}, url : {"", "u1"}]

AnyBatches(t) == UNION {[1..n -> AnyRawItems(t)] : n \in 0..MaxBatch}

\* answers of every shape
ConfidenceNumbers == (0 - 2)..(CONF_MAX + 7)

SentimentValues ==
    {Missing, Null} \cup
    {JStr(x) : x \in {"bullish", "bearish", "neutral", "Bullish", "BEARISH", "positive", ""}}

ConfidenceValues ==
    {Missing, Null, JStr("high"), JNaN, JNumStr(7)} \cup {JNum(v) : v \in ConfidenceNumbers}

AnyAnswers ==
    {Raised("api"), Raised("json")} \cup
    {Answer(x, c) : x \in SentimentValues, c \in ConfidenceValues}

\* the answers of the model in the runs on any store: the call raises, or a
\* well-formed answer
Answers == {Raised("api"), Answer(JStr("bullish"), JNum(7))}

\* the store files a run can find: at most MAX_ITEMS records, no id twice,
\* newest first
StoredAnalysis(v) ==
    [version |-> v, generatedAt |-> 0, sentiment |-> "neutral", confidence |-> CONF_DEFAULT]

Analyses == {None} \cup {Some(StoredAnalysis(v)) : v \in 1..ANALYSIS_VERSION}

StoreRecords(urls, analyses) ==
    [id : {Str(n) : n \in 1..MaxId}, headline : {"h1"}, url : urls,
     publishedAt : 0..MaxNow, analysis : analyses]

ValidStore(s) ==
    /\ Len(s) <= MAX_ITEMS
    /\ \A i, j \in 1..Len(s) : i < j =>
           /\ s[i].id # s[j].id
           /\ s[i].publishedAt >= s[j].publishedAt

Stores(urls, analyses) ==
    {s \in UNION {[1..n -> StoreRecords(urls, analyses)] : n \in 0..MAX_ITEMS} :
         ValidStore(s)}

\* the lists a run saves, and the lists in the files it saves over
SaveLists == Stores({"u1"}, {None})

\* ---------------------------------------------------------------- actions
\* sync_news_finnhub.main(): the clock reads now in transform_raw_items and
\* now + d in merge_and_trim; when merge_and_trim raises the run ends there
IngestMain(raw, d) ==
    /\ now + d <= MaxNow
    /\ LET ex == load_existing(file)
           new == transform_raw_items(raw, now)
           e == ItemError(file)
       IN /\ file' = IF e = "none" THEN Written(merge_and_trim(ex, new, now + d))
                     ELSE file
          /\ io' = IF e = "none" THEN <<"load", "save">> ELSE <<"load">>
          /\ err' = e
          /\ existing' = ex
          /\ new_items' = new
    /\ raw_items' = raw
    /\ mnow' = now + d
    /\ now' = now + d
    /\ last' = "ingest"
    /\ UNCHANGED <<quota, items, to_analyze, responses>>
    /\ UNCHANGED saveVars

IngestFrom(batches) ==
    /\ last = "none"
    /\ pc = "run"
    /\ \E raw \in batches, d \in Ticks : IngestMain(raw, d)

Ingest == IngestFrom(Batches(now))

\* if not to_analyze: return
ReturnsEarly_Never(sel) == FALSE

ReturnsEarly(sel) == sel = << >>

\* analyze_news_*.main(): when load_news or select_items_to_analyze raises
\* the run ends there; an empty selection returns before save_news.  The clock reads now up to the cut-th
\* call of the model and now + d after it.
EnrichMain(resp, d, cut) ==
    /\ now + d <= MaxNow
    /\ LET e == LoadError(file)
           its == IF e = "none" THEN load_news(file) ELSE << >>
           e2 == IF e = "none" THEN ItemError(file) ELSE e
           sel == IF e2 = "none" THEN select_items_to_analyze(its, quota) ELSE << >>
           stamp == [k \in 1..Len(sel) |-> IF k > cut THEN now + d ELSE now]
           saves == e2 = "none" /\ ~ReturnsEarly(sel)
       IN /\ Len(resp) = Len(sel)
          /\ cut <= Len(sel)
          /\ err' = e2
          /\ items' = its
          /\ to_analyze' = sel
          /\ responses' = resp
          /\ file' = IF saves THEN Written(analyze_loop(its, sel, 1, resp, stamp))
                     ELSE file
          /\ io' = IF saves THEN <<"load", "save">> ELSE <<"load">>
    /\ now' = now + d
    /\ last' = "enrich"
    /\ UNCHANGED <<quota, raw_items, existing, new_items, mnow>>
    /\ UNCHANGED saveVars

EnrichRun(answers) ==
    /\ pc = "run"
    /\ \E n \in 0..quota : \E resp \in [1..n -> answers] :
         \E d \in Ticks : \E cut \in (IF d = 0 THEN {0} ELSE 0..n) :
            EnrichMain(resp, d, cut)

EnrichFrom(answers) == last = "none" /\ EnrichRun(answers)

Enrich == EnrichFrom(Answers)

\* ------------------------------------------------------- specifications
NoLocals ==
    /\ raw_items = << >> /\ existing = << >> /\ new_items = << >> /\ mnow = 0
    /\ items = << >> /\ to_analyze = << >> /\ responses = << >>
    /\ err = "none" /\ last = "none" /\ io = << >>

NoSave == tmp = Absent /\ pending = << >> /\ pc = "run"

\* one run, of either kind, on any store file it can find
Init ==
    /\ file \in {Absent} \cup {Written(s) : s \in Stores({"u1"}, {None, Some(StoredAnalysis(1))})}
    /\ now = StartTime
    /\ quota = 1
    /\ NoLocals
    /\ NoSave

Next == Ingest \/ Enrich

Spec == Init /\ [][Next]_vars

\* one enrichment run, on any store file it can find
InitEnrich ==
    /\ file \in {Absent} \cup {Written(s) : s \in Stores({"", "u1"}, Analyses)}
    /\ now = StartTime
    /\ quota \in 1..MaxQuota
    /\ NoLocals
    /\ NoSave

NextEnrich == Enrich

SpecEnrich == InitEnrich /\ [][NextEnrich]_vars

\* one enrichment run on a longer list: analyze_news_* reads whatever list
\* the file holds.  The record at position i has the id i, all are of one age.
SweepRecords(i) ==
    [id : {Str(i)}, headline : {"h1"}, url : {"", "u1"},
     publishedAt : {StartTime}, analysis : Analyses]

SweepStores ==
    UNION {{s \in [1..n -> UNION {SweepRecords(i) : i \in 1..n}] :
               \A i \in 1..n : s[i] \in SweepRecords(i)} : n \in 0..MaxLoaded}

InitSweep ==
    /\ file \in {Written(s) : s \in SweepStores}
    /\ now = StartTime
    /\ quota \in 1..MaxQuota
    /\ NoLocals
    /\ NoSave

SpecSweep == InitSweep /\ [][NextEnrich]_vars


\* one run, of either kind, on whatever is at the store path: no file, a
\* whole text, or one that does not parse (cut short, or not a list)
InitLoad ==
    /\ file \in {Absent} \cup {Written(s) : s \in SaveLists}
                \cup {Partial(s) : s \in SaveLists}
    /\ now = StartTime
    /\ quota = 1
    /\ NoLocals
    /\ NoSave

SpecLoad == InitLoad /\ [][Next]_vars

\* one ingestion run into an empty store, on raw items of every shape
IngestAny == IngestFrom(AnyBatches(now))

InitTransform ==
    /\ file = Absent
    /\ now = StartTime
    /\ quota = 1
    /\ NoLocals
    /\ NoSave

SpecTransform == InitTransform /\ [][IngestAny]_vars

\* one enrichment run over a store of one record, on answers of every shape
EnrichAny == EnrichFrom(AnyAnswers)

InitAnalyze ==
    /\ file \in {Written(s) : s \in {x \in Stores({"u1"}, {None, Some(StoredAnalysis(1))}) : Len(x) = 1}}
    /\ now = StartTime
    /\ quota = 1
    /\ NoLocals
    /\ NoSave

SpecAnalyze == InitAnalyze /\ [][EnrichAny]_vars

\* one run, of either kind, on a store file whose list holds one element
\* that is not an object
InitMalformed ==
    /\ file \in UNION {{WithJunk(s, j) : j \in 0..Len(s)} : s \in SaveLists}
    /\ now = StartTime
    /\ quota = 1
    /\ NoLocals
    /\ NoSave

SpecMalformed == InitMalformed /\ [][Next]_vars

\* enrichment runs one after the other, with no ingestion run in between
\* and every call of the model returning; the scheduler keeps starting runs
AnswersOk == {Answer(JStr("bullish"), JNum(7))}

EnrichOk == EnrichRun(AnswersOk)

SpecSweepLive == InitSweep /\ [][EnrichOk]_vars /\ WF_vars(EnrichOk)

\* one run, of either kind, on no file or on a list of at most one record,
\* analysed at the current version or not at all
InitAccess ==
    /\ file \in {Absent} \cup
           {Written(s) : s \in {x \in Stores({"u1"}, {None, Some(StoredAnalysis(ANALYSIS_VERSION))}) : Len(x) <= 1}}
    /\ now = StartTime
    /\ quota = 1
    /\ NoLocals
    /\ NoSave

SpecAccess == InitAccess /\ [][Next]_vars

\* runs that follow one another from an empty store while the provider sends
\* items without an id: two articles, each published in the second of the run
SynthItems(t) ==
    {[id |-> NoId, datetime |-> Some(2 * t), headline |-> "h1", url |-> "u1"],
     [id |-> NoId, datetime |-> Some(2 * t), headline |-> "h2", url |-> "u2"]}

SynthBatches(t) == UNION {[1..n -> SynthItems(t)] : n \in 0..MaxBatch}

IngestSynth == pc = "run" /\ \E raw \in SynthBatches(now), d \in Ticks : IngestMain(raw, d)

EnrichSynth == EnrichRun(Answers)

InitSynth ==
    /\ file = Absent
    /\ now = StartTime
    /\ quota = 1
    /\ NoLocals
    /\ NoSave

NextSynth == IngestSynth \/ EnrichSynth

SpecSynth == InitSynth /\ [][NextSynth]_vars

\* ------------------------------------------------- the save, step by step
\* open(p, "w") creates the file or cuts it to nothing; json.dump writes the
\* text piece by piece, here record by record; leaving the with block closes
\* the file with the whole text in it
OpenForWrite(f) == Partial(<< >>)
DumpNext(f, data) == Partial(SubSeq(data, 1, Len(f.data) + 1))
Closed(f, data) == Written(data)

SaveLabels == {"tmp_open", "tmp_dump", "tmp_replace", "open", "dump"}

\* tmp.replace(path) inside the with block, before the text is all written
AfterWithBlock_Inside(p) == p \in {"tmp_dump", "tmp_replace"}

AfterWithBlock(p) == p = "tmp_replace"

\* write_json_atomic(path, data)
TmpOpen ==
    /\ pc = "tmp_open"
    /\ tmp' = OpenForWrite(tmp)
    /\ pc' = "tmp_dump"
    /\ UNCHANGED <<file, now, quota, raw_items, existing, new_items, mnow, items,
                   to_analyze, responses, err, io, pending, last>>

TmpDump ==
    /\ pc = "tmp_dump"
    /\ Len(tmp.data) < Len(pending)
    /\ tmp' = DumpNext(tmp, pending)
    /\ UNCHANGED <<file, now, quota, raw_items, existing, new_items, mnow, items,
                   to_analyze, responses, err, io, pending, pc, last>>

TmpClose ==
    /\ pc = "tmp_dump"
    /\ Len(tmp.data) = Len(pending)
    /\ tmp' = Closed(tmp, pending)
    /\ pc' = "tmp_replace"
    /\ UNCHANGED <<file, now, quota, raw_items, existing, new_items, mnow, items,
                   to_analyze, responses, err, io, pending, last>>

\* tmp.replace(path): the rename puts the temporary file in the place of the
\* store file in one step
TmpReplace ==
    /\ AfterWithBlock(pc)
    /\ file' = tmp
    /\ tmp' = Absent
    /\ io' = Append(io, "save")
    /\ pc' = "done"
    /\ UNCHANGED <<now, quota, raw_items, existing, new_items, mnow, items,
                   to_analyze, responses, err, pending, last>>

\* save_news(path, items)
StoreOpen ==
    /\ pc = "open"
    /\ file' = OpenForWrite(file)
    /\ io' = Append(io, "save")
    /\ pc' = "dump"
    /\ UNCHANGED <<tmp, now, quota, raw_items, existing, new_items, mnow, items,
                   to_analyze, responses, err, pending, last>>

StoreDump ==
    /\ pc = "dump"
    /\ Len(file.data) < Len(pending)
    /\ file' = DumpNext(file, pending)
    /\ UNCHANGED <<tmp, now, quota, raw_items, existing, new_items, mnow, items,
                   to_analyze, responses, err, io, pending, pc, last>>

StoreClose ==
    /\ pc = "dump"
    /\ Len(file.data) = Len(pending)
    /\ file' = Closed(file, pending)
    /\ pc' = "done"
    /\ UNCHANGED <<tmp, now, quota, raw_items, existing, new_items, mnow, items,
                   to_analyze, responses, err, io, pending, last>>

\* the process is killed, or a write raises, at any step of a save
Crash ==
    /\ pc \in SaveLabels
    /\ pc' = "crashed"
    /\ UNCHANGED <<file, tmp, now, quota, raw_items, existing, new_items, mnow,
                   items, to_analyze, responses, err, io, pending, last>>

\* sync_news_finnhub.main() at the call of write_json_atomic: existing is
\* what it loaded, pending the merged list; a temporary file may be left
\* from a run that crashed
InitSaveAtomic ==
    /\ file \in {Absent} \cup {Written(s) : s \in SaveLists}
    /\ tmp \in {Absent, Partial(<< >>)}
    /\ existing = load_existing(file)
    /\ pending \in SaveLists
    /\ pc = "tmp_open"
    /\ now = StartTime
    /\ quota = 1
    /\ raw_items = << >> /\ new_items = << >> /\ mnow = now
    /\ items = << >> /\ to_analyze = << >> /\ responses = << >>
    /\ err = "none" /\ last = "none" /\ io = <<"load">>

NextSaveAtomic == TmpOpen \/ TmpDump \/ TmpClose \/ TmpReplace \/ Crash

SpecSaveAtomic == InitSaveAtomic /\ [][NextSaveAtomic]_vars

\* analyze_news_*.main() at the call of save_news: items is what it loaded,
\* pending the list with the new analyses
InitSaveNews ==
    /\ file \in {Written(s) : s \in SaveLists}
    /\ tmp = Absent
    /\ items = load_news(file)
    /\ pending \in SaveLists
    /\ pc = "open"
    /\ now = StartTime
    /\ quota = 1
    /\ raw_items = << >> /\ existing = << >> /\ new_items = << >> /\ mnow = 0
    /\ to_analyze = << >> /\ responses = << >>
    /\ err = "none" /\ last = "none" /\ io = <<"load">>

NextSaveNews == StoreOpen \/ StoreDump \/ StoreClose \/ Crash

SpecSaveNews == InitSaveNews /\ [][NextSaveNews]_vars

\* ------------------------------------------------------------ properties
result == file.data
ExIdx == 1..Len(existing)
NewIdx == 1..Len(new_items)
OutIdx == 1..Len(result)

TooOld(r) == mnow - r.publishedAt > MAX_AGE_SECONDS
Merged(r) == ~TooOld(r) /\ r.id # EmptyStr

\* the ids of the records that take part in the merge, and for each the
\* record the merge holds for it: the last incoming one, else the existing one
UnionIds ==
    {existing[i].id : i \in {i \in ExIdx : Merged(existing[i])}}
    \cup {new_items[j].id : j \in {j \in NewIdx : Merged(new_items[j])}}
LastNew(id) ==
    {j \in NewIdx : /\ new_items[j].id = id /\ Merged(new_items[j])
                    /\ \A l \in NewIdx : l > j => ~(new_items[l].id = id /\ Merged(new_items[l]))}
UnionTs(id) ==
    IF LastNew(id) # {} THEN new_items[CHOOSE j \in LastNew(id) : TRUE].publishedAt
    ELSE existing[CHOOSE i \in ExIdx : existing[i].id = id /\ Merged(existing[i])].publishedAt
OutIds == {result[k].id : k \in OutIdx}

\* a < b on strings, by character code
RECURSIVE StrLess(_, _)
StrLess(a, b) ==
    IF Len(b) = 0 THEN FALSE
    ELSE IF Len(a) = 0 THEN TRUE
    ELSE IF Head(a) # Head(b) THEN Head(a) < Head(b)
    ELSE StrLess(Tail(a), Tail(b))

SameFields(a, b) ==
    /\ a.id = b.id /\ a.headline = b.headline /\ a.url = b.url
    /\ a.publishedAt = b.publishedAt

\* C1: a non-expired existing record's enrichment is carried by the merge
\* output for its id whenever a non-expired incoming record with that id and
\* no enrichment came in
EnrichmentPreserved ==
    last = "ingest" =>
        \A i \in ExIdx :
            ( /\ existing[i].analysis # None
              /\ ~TooOld(existing[i])
              /\ \E j \in NewIdx : /\ new_items[j].id = existing[i].id
                                   /\ ~TooOld(new_items[j])
                                   /\ new_items[j].analysis = None )
            => \A k \in OutIdx : result[k].id = existing[i].id
                                 => result[k].analysis = existing[i].analysis

EnrichmentPreservedWitness ==
    /\ last = "ingest"
    /\ \E i \in ExIdx, j \in NewIdx, k \in OutIdx :
          /\ existing[i].analysis # None /\ ~TooOld(existing[i])
          /\ new_items[j].id = existing[i].id /\ ~TooOld(new_items[j])
          /\ new_items[j].analysis = None
          /\ new_items[j].publishedAt # existing[i].publishedAt
          /\ SameFields(result[k], new_items[j])
          /\ result[k].analysis = existing[i].analysis

\* C2: no record older than MAX_AGE_SECONDS at merge time is in the merge
\* output, from whichever side it came
NoExpiredInOutput ==
    last = "ingest" => \A k \in OutIdx : mnow - result[k].publishedAt <= MAX_AGE_SECONDS

NoExpiredInOutputWitness ==
    /\ last = "ingest"
    /\ \E i \in ExIdx : TooOld(existing[i]) /\ existing[i].id \notin OutIds
    /\ \E j \in NewIdx : TooOld(new_items[j]) /\ new_items[j].id \notin OutIds
    /\ result # << >>

\* C3: the store never holds more than MAX_ITEMS records, after an ingestion
\* run and after an enrichment run
SizeBound == Len(file.data) <= MAX_ITEMS

SizeBoundWitness ==
    /\ last = "ingest"
    /\ Cardinality(UnionIds) > MAX_ITEMS
    /\ Len(result) = MAX_ITEMS

\* C4: when more than MAX_ITEMS records take part in the merge, the output
\* holds MAX_ITEMS of them and no dropped one is newer than a retained one
OldestEvictedFirst ==
    (last = "ingest" /\ Cardinality(UnionIds) > MAX_ITEMS) =>
        /\ Len(result) = MAX_ITEMS
        /\ \A k \in OutIdx : /\ result[k].id \in UnionIds
                             /\ result[k].publishedAt = UnionTs(result[k].id)
        /\ \A id \in UnionIds \ OutIds :
               \A k \in OutIdx : UnionTs(id) <= result[k].publishedAt

OldestEvictedFirstWitness ==
    /\ last = "ingest"
    /\ Cardinality(UnionIds) > MAX_ITEMS
    /\ \E id \in UnionIds \ OutIds :
          /\ \A k \in OutIdx : UnionTs(id) < result[k].publishedAt
          /\ \E i \in ExIdx : existing[i].id = id
    /\ \E j \in NewIdx, k \in OutIdx : SameFields(result[k], new_items[j])

\* C5: the merge output is ordered by publishedAt descending, and records
\* with equal publishedAt by id ascending
SortedWithIdTieBreak ==
    last = "ingest" =>
        \A k, l \in OutIdx : k < l =>
            \/ result[k].publishedAt > result[l].publishedAt
            \/ /\ result[k].publishedAt = result[l].publishedAt
               /\ StrLess(result[k].id, result[l].id)

\* C6: merging the merge output again with an empty batch, at the same time,
\* gives the same sequence
RemergeIdempotent ==
    last = "ingest" => merge_and_trim(result, << >>, mnow) = result

RemergeIdempotentWitness ==
    /\ last = "ingest"
    /\ existing # << >> /\ new_items # << >>
    /\ \E k, l \in OutIdx : /\ k < l
                            /\ result[k].publishedAt = result[l].publishedAt
                            /\ result[k].analysis # None

\* C7 as stated: no id twice in the store, and where existing and incoming
\* both hold a record for an id, the output holds an incoming record's fields
UniqueIdsIncomingWins ==
    /\ \A k, l \in 1..Len(file.data) : k # l => file.data[k].id # file.data[l].id
    /\ last = "ingest" =>
          \A i \in ExIdx, j \in NewIdx, k \in OutIdx :
              (existing[i].id = new_items[j].id /\ result[k].id = existing[i].id)
              => \E l \in NewIdx : SameFields(result[k], new_items[l])

\* C7 as amended: no id twice in the store, and an id for which the batch
\* holds a record that is not expired at merge time is in the output with
\* the fields of the last such record of the batch
UniqueIdsLastFreshIncomingWins ==
    /\ \A k, l \in 1..Len(file.data) : k # l => file.data[k].id # file.data[l].id
    /\ last = "ingest" =>
          \A k \in OutIdx : \A j \in LastNew(result[k].id) :
              SameFields(result[k], new_items[j])

UniqueIdsLastFreshIncomingWinsWitness ==
    /\ last = "ingest"
    /\ \E i \in ExIdx, j \in NewIdx, k \in OutIdx :
          /\ existing[i].id = new_items[j].id
          /\ ~TooOld(existing[i])
          /\ existing[i].publishedAt # new_items[j].publishedAt
          /\ j \in LastNew(result[k].id)
          /\ SameFields(result[k], new_items[j])

\* C8: every selected record has a url and either no enrichment or one of a
\* version below ANALYSIS_VERSION
SelectedAreEligible ==
    last = "enrich" =>
        \A k \in 1..Len(to_analyze) :
            LET r == items[to_analyze[k]] IN
            /\ r.url # ""
            /\ r.analysis = None \/ r.analysis[1].version < ANALYSIS_VERSION

SelectedAreEligibleWitness ==
    /\ last = "enrich"
    /\ \E k \in 1..Len(to_analyze) :
          /\ items[to_analyze[k]].analysis # None
          /\ items[to_analyze[k]].analysis[1].version < ANALYSIS_VERSION
    /\ \E p \in 1..Len(items) :
          /\ items[p].analysis # None
          /\ items[p].analysis[1].version >= ANALYSIS_VERSION
          /\ items[p].url # ""
          /\ \A k \in 1..Len(to_analyze) : to_analyze[k] # p

\* C9: the selection is the first quota eligible records of the loaded
\* list, in the order of the list
EligiblePositions ==
    {p \in 1..Len(items) :
        /\ items[p].url # ""
        /\ items[p].analysis = None \/ items[p].analysis[1].version < ANALYSIS_VERSION}
SelectedPositions == {to_analyze[k] : k \in 1..Len(to_analyze)}

SelectionIsFirstEligible ==
    last = "enrich" =>
        /\ \A k, l \in 1..Len(to_analyze) : k < l => to_analyze[k] < to_analyze[l]
        /\ SelectedPositions \subseteq EligiblePositions
        /\ Len(to_analyze) = IF quota < Cardinality(EligiblePositions)
                             THEN quota ELSE Cardinality(EligiblePositions)
        /\ \A p \in EligiblePositions \ SelectedPositions :
               \A s \in SelectedPositions : s < p

SelectionIsFirstEligibleWitness ==
    /\ last = "enrich"
    /\ Cardinality(EligiblePositions) > quota
    /\ Len(to_analyze) = quota
    /\ \E p \in EligiblePositions \ SelectedPositions : to_analyze[quota] < p

\* C11: after an enrichment run the records that were eligible but beyond the
\* quota are found eligible by the scan of the next run over the saved file,
\* and in the same order as in this run's list
NotReached == EligiblePositions \ SelectedPositions
NextScan == select_loop(load_news(file), 1, << >>)
NextScanRank(id) == CHOOSE k \in 1..Len(NextScan) : load_news(file)[NextScan[k]].id = id

SweepResumes ==
    (last = "enrich" /\ err = "none") =>
        /\ \A p \in NotReached :
               \E k \in 1..Len(NextScan) : load_news(file)[NextScan[k]] = items[p]
        /\ \A p, q \in NotReached :
               p < q => NextScanRank(items[p].id) < NextScanRank(items[q].id)

SweepResumesWitness ==
    /\ last = "enrich"
    /\ Cardinality(NotReached) >= 2
    /\ \E k \in 1..Len(to_analyze) : file.data[to_analyze[k]] # items[to_analyze[k]]

\* C12: a successful application sets the record's analysis to one of version
\* ANALYSIS_VERSION, generated at the clock of the run and holding the
\* model's normalised answer; the other fields of that record, and every
\* other record of the list, are saved as they were loaded
Answered(p) ==
    {k \in 1..Len(to_analyze) : to_analyze[k] = p /\ responses[k].raises = "none"}

ApplyStampsAndFrames ==
    (last = "enrich" /\ to_analyze # << >>) =>
        /\ Len(file.data) = Len(items)
        /\ \A p \in 1..Len(items) :
               /\ SameFields(file.data[p], items[p])
               /\ IF Answered(p) = {}
                  THEN file.data[p].analysis = items[p].analysis
                  ELSE /\ file.data[p].analysis # None
                       /\ LET a == file.data[p].analysis[1]
                              k == CHOOSE k \in Answered(p) : TRUE
                          IN /\ a.version = ANALYSIS_VERSION
                             /\ a.generatedAt \in StartTime..now
                             /\ a.sentiment = analyze_with_gemini(responses[k]).sentiment
                             /\ a.confidence = analyze_with_gemini(responses[k]).confidence

ApplyStampsAndFramesWitness ==
    /\ last = "enrich"
    /\ \E p, q \in 1..Len(items) :
           /\ p # q
           /\ Answered(p) # {}
           /\ items[p].analysis # None
           /\ file.data[p].analysis[1].generatedAt = now
           /\ Answered(q) = {}
           /\ items[q].analysis # None

\* C13: when the call of the model raises for a selected record, the file
\* holds that record as it was loaded, and the selected records after it
\* are still analysed
ModelFailureSkipsRecord ==
    last = "enrich" =>
        \A k \in 1..Len(to_analyze) :
            LET p == to_analyze[k]
            IN IF responses[k].raises # "none"
               THEN file.data[p] = items[p]
               ELSE /\ file.data[p].analysis # None
                    /\ file.data[p].analysis # items[p].analysis
                    /\ file.data[p].analysis[1].version = ANALYSIS_VERSION

ModelFailureSkipsRecordWitness ==
    /\ last = "enrich"
    /\ \E k, l \in 1..Len(to_analyze) :
           /\ k < l
           /\ responses[k].raises # "none"
           /\ items[to_analyze[k]].analysis # None
           /\ responses[l].raises = "none"
           /\ file.data[to_analyze[l]].analysis # items[to_analyze[l]].analysis

\* C14 (as stated): a run never lowers the version of the enrichment stored
\* under an id, nor removes the enrichment, whatever happens to the record
VersionKept(before, after) ==
    before.analysis # None =>
        /\ after.analysis # None
        /\ after.analysis[1].version >= before.analysis[1].version

EnrichmentNeverRegressesById ==
    /\ last = "ingest" =>
           \A i \in ExIdx, k \in OutIdx :
               existing[i].id = result[k].id => VersionKept(existing[i], result[k])
    /\ (last = "enrich" /\ err = "none") =>
           \A p \in 1..Len(items) : VersionKept(items[p], file.data[p])

\* C14 (amended): a run never lowers the version of the enrichment of a record
\* that stays in the store, nor removes it: a record the merge does not drop
\* as expired, if its id is in the output, and every record of an enrichment run
EnrichmentNeverRegressesWhileStored ==
    /\ last = "ingest" =>
           \A i \in ExIdx, k \in OutIdx :
               (existing[i].id = result[k].id /\ ~TooOld(existing[i]))
                   => VersionKept(existing[i], result[k])
    /\ (last = "enrich" /\ err = "none") =>
           \A p \in 1..Len(items) : VersionKept(items[p], file.data[p])

EnrichmentNeverRegressesWhileStoredWitness ==
    /\ last = "ingest"
    /\ \E i \in ExIdx, j \in NewIdx, k \in OutIdx :
           /\ existing[i].analysis # None
           /\ ~TooOld(existing[i])
           /\ new_items[j].id = existing[i].id
           /\ new_items[j].publishedAt # existing[i].publishedAt
           /\ result[k].id = existing[i].id
           /\ result[k].publishedAt = new_items[j].publishedAt
           /\ result[k].analysis = existing[i].analysis

\* C15: at every step of write_json_atomic, and after a crash at any of them,
\* the store file holds a whole text: the list the run loaded or the list it
\* is saving
AtomicSaveShowsOldOrNew ==
    /\ file.whole
    /\ file.data = existing \/ file = Written(pending)

AtomicSaveShowsOldOrNewWitness ==
    /\ pc = "crashed"
    /\ tmp.exists /\ ~tmp.whole /\ tmp.data # << >>
    /\ file = Written(existing)
    /\ existing # << >>
    /\ existing # pending

\* C16: at every step of save_news, and after a crash at any of them, the
\* store file holds a whole text: the list the run loaded or the list it is
\* saving
SaveNewsShowsOldOrNew ==
    /\ file.whole
    /\ file.data = items \/ file = Written(pending)

\* C17: a run that finds a store file that does not parse ends with an
\* error and leaves the file as it is
CorruptStoreStopsRun ==
    [][(file.exists /\ ~file.whole) => (err' # "none" /\ file' = file)]_vars

\* C18: a run that finds no store file loads the empty list and ends
\* without an error
AbsentStoreLoadsEmpty ==
    [][~file.exists => (err' = "none" /\ existing' = << >> /\ items' = << >>)]_vars

\* C19: every record transform_raw_items hands to the merge has a headline
\* and a url that are not empty; there are no more of them than raw items
\* with both, and the store the run writes holds no other
ValidRaw == {i \in 1..Len(raw_items) : raw_items[i].headline # "" /\ raw_items[i].url # ""}

IngestValidates ==
    last = "ingest" =>
        /\ \A j \in NewIdx : new_items[j].headline # "" /\ new_items[j].url # ""
        /\ Len(new_items) <= Cardinality(ValidRaw)
        /\ \A k \in OutIdx : result[k].headline # "" /\ result[k].url # ""

IngestValidatesWitness ==
    /\ last = "ingest"
    /\ \E i, l \in 1..Len(raw_items) :
           /\ raw_items[i].headline = "" /\ raw_items[i].url # ""
           /\ raw_items[i].datetime = Some(2 * StartTime)
           /\ l \in ValidRaw
    /\ Len(new_items) = 1
    /\ Len(result) = 1

\* C20: every enrichment in the store has a confidence between 0 and 1 and one
\* of the three sentiments; the stored confidence is the answer's number cut
\* to that range, 0.5 when the answer has none or one that is no number; the
\* stored sentiment is the answer's when it is one of the three, neutral when
\* the answer has none or an unknown one
StoredFor(k) == file.data[to_analyze[k]].analysis[1]

EnrichmentValuesNormalised ==
    /\ \A p \in 1..Len(file.data) :
           file.data[p].analysis # None =>
               /\ file.data[p].analysis[1].confidence \in CONF_MIN..CONF_MAX
               /\ file.data[p].analysis[1].sentiment \in {"bullish", "bearish", "neutral"}
    /\ last = "enrich" =>
           \A k \in 1..Len(to_analyze) :
               responses[k].raises = "none" =>
                   LET c == responses[k].confidence
                       x == responses[k].sentiment
                   IN /\ (c.kind = "num" /\ c.v > CONF_MAX) => StoredFor(k).confidence = CONF_MAX
                      /\ (c.kind = "num" /\ c.v < CONF_MIN) => StoredFor(k).confidence = CONF_MIN
                      /\ (c.kind = "num" /\ c.v \in CONF_MIN..CONF_MAX) => StoredFor(k).confidence = c.v
                      /\ c.kind \in {"missing", "null", "str"} => StoredFor(k).confidence = CONF_DEFAULT
                      /\ (x.kind = "str" /\ x.s \in {"bullish", "bearish", "neutral"})
                             => StoredFor(k).sentiment = x.s
                      /\ (x.kind = "missing" \/ (x.kind = "str" /\ x.s \in {"positive", ""}))
                             => StoredFor(k).sentiment = "neutral"

EnrichmentValuesNormalisedWitness ==
    /\ last = "enrich"
    /\ Len(to_analyze) = 1
    /\ responses[1] = Answer(JStr("positive"), JNum(CONF_MAX + 7))
    /\ StoredFor(1).confidence = CONF_MAX
    /\ StoredFor(1).sentiment = "neutral"

\* C21: an enrichment run in which the call of the model raises for every
\* selected record ends without an error, and the file it saves is a whole
\* text holding the list as it was loaded
AllRaised == \A k \in 1..Len(to_analyze) : responses[k].raises # "none"

AllFailuresLeaveStore ==
    (last = "enrich" /\ to_analyze # << >> /\ AllRaised) =>
        /\ err = "none"
        /\ file = Written(items)

AllFailuresLeaveStoreWitness ==
    /\ last = "enrich"
    /\ Len(to_analyze) >= 2
    /\ AllRaised
    /\ \E k \in 1..Len(to_analyze) : items[to_analyze[k]].analysis # None
    /\ \E p \in 1..Len(items) : items[p].analysis # None /\ p \notin SelectedPositions

\* C22: a run on a store file that parses as a list ends without an error,
\* whatever the elements of the list are
RecordErrorsIsolated ==
    [][(file.exists /\ file.whole) => err' = "none"]_vars

\* C23: the scenario of the specification, with the times 100 and 200 scaled
\* to two consecutive clock values and nothing expired: the store holds id 1
\* with an analysis of version 1, the batch is id 1 of the same time without
\* analysis and then a newer id 2; the merge gives id 2, then id 1 with the
\* analysis, and a selection with room for both returns both in that order
ScenarioInput ==
    /\ last = "ingest"
    /\ Len(existing) = 1 /\ Len(new_items) = 2
    /\ existing[1].id = Str(1)
    /\ existing[1].analysis = Some(StoredAnalysis(1))
    /\ new_items[1].id = Str(1)
    /\ new_items[1].publishedAt = existing[1].publishedAt
    /\ new_items[2].id = Str(2)
    /\ new_items[2].publishedAt > new_items[1].publishedAt
    /\ ~TooOld(existing[1])

ScenarioOutput ==
    ScenarioInput =>
        /\ result = <<new_items[2], [new_items[1] EXCEPT !.analysis = existing[1].analysis]>>
        /\ select_items_to_analyze(result, Len(result)) = <<1, 2>>

ScenarioOutputWitness ==
    /\ ScenarioInput
    /\ ANALYSIS_VERSION = 2
    /\ Len(result) = 2

\* C24 (as stated): when two or more incoming records that are not expired
\* share an id, the output record of that id has the fields of the last of
\* them, and the analysis of any existing record of that id
Duplicates(id) == {j \in NewIdx : new_items[j].id = id /\ Merged(new_items[j])}
LastDuplicate(id) == CHOOSE j \in Duplicates(id) : \A l \in Duplicates(id) : l <= j

LastDuplicateWinsAnyExisting ==
    last = "ingest" =>
        \A k \in OutIdx :
            Cardinality(Duplicates(result[k].id)) >= 2 =>
                /\ SameFields(result[k], new_items[LastDuplicate(result[k].id)])
                /\ \A i \in ExIdx :
                       (existing[i].id = result[k].id /\ existing[i].analysis # None)
                           => result[k].analysis = existing[i].analysis

\* C24 (amended): ... and the analysis of an existing record of that id that
\* is not expired
LastDuplicateWins ==
    last = "ingest" =>
        \A k \in OutIdx :
            Cardinality(Duplicates(result[k].id)) >= 2 =>
                /\ SameFields(result[k], new_items[LastDuplicate(result[k].id)])
                /\ \A i \in ExIdx :
                       (existing[i].id = result[k].id /\ existing[i].analysis # None
                        /\ ~TooOld(existing[i]))
                           => result[k].analysis = existing[i].analysis

LastDuplicateWinsWitness ==
    /\ last = "ingest"
    /\ \E k \in OutIdx, i \in ExIdx, j, l \in NewIdx :
           /\ j < l
           /\ {j, l} \subseteq Duplicates(result[k].id)
           /\ ~SameFields(new_items[j], new_items[l])
           /\ existing[i].id = result[k].id
           /\ existing[i].analysis # None
           /\ ~TooOld(existing[i])
           /\ result[k].analysis = existing[i].analysis
           /\ SameFields(result[k], new_items[l])

\* C25: when enrichment runs follow one another and every call of the model
\* returns, from some run on no record of the file is eligible any more, and
\* once none is, a run leaves the file as it is
NoEligibleLeft == select_items_to_analyze(load_news(file), quota) = << >>

SweepCompletes ==
    /\ <>[]NoEligibleLeft
    /\ [][NoEligibleLeft => file' = file]_vars

SweepCompletesWitness ==
    /\ last = "enrich"
    /\ NoEligibleLeft
    /\ quota = 1
    /\ Len(file.data) = MaxLoaded
    /\ \A p \in 1..Len(file.data) :
           /\ file.data[p].url # ""
           /\ file.data[p].analysis[1].version = ANALYSIS_VERSION
           /\ file.data[p].analysis[1].generatedAt >= StartTime

\* C26: a run loads the store file once, first, and saves it at most once,
\* last; a run that does not save leaves the file as it is, a run that saves
\* leaves a whole text, and an enrichment run with an empty selection does
\* not save
StoreAccessPattern ==
    [][/\ io' \in {<<"load">>, <<"load", "save">>}
       /\ io' = <<"load">> => file' = file
       /\ io' = <<"load", "save">> => (file'.exists /\ file'.whole)
       /\ (last' = "enrich" /\ to_analyze' = << >>) => io' = <<"load">>]_vars

StoreAccessPatternWitness ==
    /\ last = "enrich"
    /\ err = "none"
    /\ items # << >>
    /\ to_analyze = << >>
    /\ io = <<"load">>

\* C27 (as stated): a selected record whose call raised is selected by the
\* next run at the same rank among the eligible records
NextSelection == select_items_to_analyze(load_news(file), quota)
RaisedAt == {k \in 1..Len(to_analyze) : responses[k].raises # "none"}

FailedKeepsRank ==
    (last = "enrich" /\ err = "none") =>
        \A k \in RaisedAt :
            k <= Len(NextSelection) /\ NextSelection[k] = to_analyze[k]

\* C27 (amended): a selected record whose call raised is saved as it was
\* loaded and selected by the next run; its rank among the eligible records
\* is the number of selected records up to it whose call raised, and every
\* eligible record behind it in the list comes behind it in the next scan
FailedKeepsPlace ==
    (last = "enrich" /\ err = "none") =>
        \A k \in RaisedAt :
            LET p == to_analyze[k]
                m == Cardinality({j \in RaisedAt : j <= k})
            IN /\ load_news(file)[p] = items[p]
               /\ m <= Len(NextSelection)
               /\ NextSelection[m] = p
               /\ \A n \in 1..Len(NextScan) :
                      NextScan[n] > p => n > m

FailedKeepsPlaceWitness ==
    /\ last = "enrich"
    /\ Len(to_analyze) = 2
    /\ RaisedAt = {2}
    /\ NotReached # {}
    /\ NextSelection[1] = to_analyze[2]

\* C28: when at most MAX_ITEMS distinct ids are held by the records of
\* existing and incoming that are not expired and have an id, the merge
\* output holds exactly those ids, each once
MergeComplete ==
    (last = "ingest" /\ err = "none" /\ Cardinality(UnionIds) <= MAX_ITEMS) =>
        /\ OutIds = UnionIds
        /\ Len(result) = Cardinality(UnionIds)

MergeCompleteWitness ==
    /\ last = "ingest"
    /\ err = "none"
    /\ Cardinality(UnionIds) = MAX_ITEMS
    /\ \E i \in ExIdx : Merged(existing[i]) /\ LastNew(existing[i].id) = {}
    /\ \E j \in NewIdx : /\ Merged(new_items[j])
                         /\ \A i \in ExIdx : existing[i].id # new_items[j].id
    /\ \E i \in ExIdx : ~Merged(existing[i])
    /\ OutIds = UnionIds

\* C29: when the merge copies the enrichment of an existing record onto an
\* incoming record, the two have the same url and the same headline, also
\* when their id was synthesized from publishedAt and the ordinal
CarriedOntoSameArticle ==
    (last = "ingest" /\ err = "none") =>
        \A i \in ExIdx, j \in NewIdx :
            ( /\ Merged(existing[i]) /\ Merged(new_items[j])
              /\ existing[i].id = new_items[j].id
              /\ existing[i].analysis # None ) =>
                /\ new_items[j].url = existing[i].url
                /\ new_items[j].headline = existing[i].headline

====
